---- MODULE Spec2Model ----
(***************************************************************************)
(* A model of the Ramadan meal recommender (src/app.py) and of the         *)
(* standalone sheet test (src/gsheets_test.py).                            *)
(*                                                                         *)
(* Strings are sequences of one-character strings, so that str.strip and   *)
(* str.lower are computed and not assumed.  Nutrient values are integers.  *)
(* final_score is kept in units of 1/1200, the common denominator of       *)
(* 0.8*protein - sodium/1200 - 0.05*fat, and a score is kept multiplied by *)
(* 1200 * max(calories_max, 1), which is the same positive factor for      *)
(* every row of one call: scores are compared as exact rationals.          *)
(***************************************************************************)
EXTENDS Integers, Sequences, FiniteSets, TLC

VARIABLES
    logged_in,   \* st.session_state.logged_in
    username,    \* st.session_state.username
    sheet,       \* the "logs" worksheet: its rows, each a sequence of cell texts
    ui,          \* what the last interaction was given and what it showed
    appended,    \* the rows append_row has written, each with its row number
    ensured,     \* successful ensure_sheet_header calls so far (counted to 2)
    wrote,       \* whether the last successful ensure_sheet_header wrote A1:H1
    csv,         \* the frame load_raw returns
    prepared,    \* what prepare_for_app returned for csv
    df,          \* the prepared table handed to recommend
    req,         \* the arguments of the last recommend call
    recs         \* what the last recommend call returned

vars == <<logged_in, username, sheet, ui, appended, ensured, wrote,
          csv, prepared, df, req, recs>>

(***************************************************************************)
(* Strings                                                                 *)
(***************************************************************************)
UpperChars ==
    <<"A","B","C","D","E","F","G","H","I","J","K","L","M",
      "N","O","P","Q","R","S","T","U","V","W","X","Y","Z">>

LowerChars ==
    <<"a","b","c","d","e","f","g","h","i","j","k","l","m",
      "n","o","p","q","r","s","t","u","v","w","x","y","z">>

DigitChars == <<"0","1","2","3","4","5","6","7","8","9">>

Whitespace == {" ", "\t", "\n"}

UpperSet == {UpperChars[i] : i \in 1..Len(UpperChars)}

LowerOf ==
    [c \in UpperSet |-> LowerChars[CHOOSE i \in 1..Len(UpperChars) : UpperChars[i] = c]]

lower_char(c) == IF c \in UpperSet THEN LowerOf[c] ELSE c

\* str.lower()
lower(s) == [i \in 1..Len(s) |-> lower_char(s[i])]

RECURSIVE lstrip(_)
lstrip(s) ==
    IF Len(s) > 0 /\ s[1] \in Whitespace THEN lstrip(Tail(s)) ELSE s

RECURSIVE rstrip(_)
rstrip(s) ==
    IF Len(s) > 0 /\ s[Len(s)] \in Whitespace
    THEN rstrip(SubSeq(s, 1, Len(s) - 1))
    ELSE s

\* str.strip()
strip(s) == rstrip(lstrip(s))

\* str(n) of an integer
RECURSIVE str_int(_)
str_int(n) ==
    IF n < 0 THEN <<"-">> \o str_int(-n)
    ELSE IF n < 10 THEN <<DigitChars[n + 1]>>
    ELSE str_int(n \div 10) \o <<DigitChars[(n % 10) + 1]>>

IsDigits(s) ==
    Len(s) > 0 /\ \A i \in 1..Len(s) : \E d \in 1..10 : DigitChars[d] = s[i]

RECURSIVE parse_digits(_)
parse_digits(s) ==
    IF Len(s) = 0 THEN 0
    ELSE 10 * parse_digits(SubSeq(s, 1, Len(s) - 1))
         + ((CHOOSE d \in 1..10 : DigitChars[d] = s[Len(s)]) - 1)

\* sep.join(parts)
RECURSIVE join(_, _)
join(sep, parts) ==
    IF Len(parts) = 0 THEN <<>>
    ELSE IF Len(parts) = 1 THEN parts[1]
    ELSE parts[1] \o sep \o join(sep, Tail(parts))

s_suhoor == <<"s","u","h","o","o","r">>
s_iftar  == <<"i","f","t","a","r">>
s_either == <<"e","i","t","h","e","r">>
s_nan    == <<"n","a","n">>

(***************************************************************************)
(* Cells of a raw frame: a number, a text, or a missing value (NaN).       *)
(***************************************************************************)
Num(n) == [t |-> "num", n |-> n, s |-> <<>>]
Str(s) == [t |-> "str", n |-> 0, s |-> s]
NaN    == [t |-> "nan", n |-> 0, s |-> <<>>]

\* pd.to_numeric(errors="coerce") of one cell: numbers stay, digit strings
\* parse, everything else becomes NaN
to_numeric(c) ==
    IF c.t = "num" THEN c
    ELSE IF c.t = "str" /\ IsDigits(c.s) THEN Num(parse_digits(c.s))
    ELSE NaN

\* Series.astype(str) of one cell
astype_str(c) ==
    IF c.t = "num" THEN str_int(c.n)
    ELSE IF c.t = "str" THEN c.s
    ELSE s_nan

\* Series.between(lo, hi), inclusive on both sides; False for NaN
between(c, lo, hi) == c.t = "num" /\ lo <= c.n /\ c.n <= hi

(***************************************************************************)
(* prepare_for_app                                                         *)
(***************************************************************************)
required == <<"title", "calories", "protein", "fat", "sodium">>

MissingRequired(cols) == {i \in 1..Len(required) : required[i] \notin cols}

\* lines 95-96: the four nutrient columns are coerced to numbers
coerce(r) ==
    [r EXCEPT !.calories = to_numeric(r.calories),
              !.protein  = to_numeric(r.protein),
              !.fat      = to_numeric(r.fat),
              !.sodium   = to_numeric(r.sodium)]

\* line 98: dropna(subset=[title, calories, protein, fat, sodium])
notna(r) ==
    /\ r.title.t # "nan"
    /\ r.calories.t # "nan"
    /\ r.protein.t # "nan"
    /\ r.fat.t # "nan"
    /\ r.sodium.t # "nan"

sanity_open(r) ==
    /\ r.calories.t = "num" /\ 1 <= r.calories.n /\ r.calories.n < 1993
    /\ between(r.protein, 0, 200)
    /\ r.fat.t = "num" /\ 0 <= r.fat.n /\ r.fat.n <= 195
    /\ between(r.sodium, 0, 5980)

\* lines 101-106: the sanity filter
sanity(r) ==
    /\ between(r.calories, 1, 1993)
    /\ between(r.protein, 0, 200)
    /\ between(r.fat, 0, 194)
    /\ between(r.sodium, 0, 5980)

\* lines 109-113: meal_slot defaults to either, else is trimmed, lowercased and
\* replaced by either when it is not one of the three slots
meal_slot_of(cols, r) ==
    IF "meal_slot" \notin cols THEN s_either
    ELSE LET v == lower(strip(astype_str(r.meal_slot)))
         IN  IF v \in {s_suhoor, s_iftar, s_either} THEN v ELSE s_either

\* lines 116-121: the rationale built from the sodium and protein thresholds
build_why(r) ==
    <<IF r.sodium.n <= 600 THEN "lower sodium" ELSE "higher sodium",
      "+",
      IF r.protein.n >= 25 THEN "high protein" ELSE "moderate protein">>

\* line 125, times 1200: 0.8*protein - sodium/1200 - 0.05*fat
derived_score(r) == 960 * r.protein.n - r.sodium.n - 60 * r.fat.n

\* one surviving row as the prepared table holds it
prepared_row(cols, r) ==
    [title       |-> r.title,
     calories    |-> r.calories.n,
     protein     |-> r.protein.n,
     fat         |-> r.fat.n,
     sodium      |-> r.sodium.n,
     meal_slot   |-> meal_slot_of(cols, r),
     why         |-> IF "why" \in cols THEN <<astype_str(r.why)>> ELSE build_why(r),
     final_score |-> IF "final_score" \in cols THEN r.final_score.n
                     ELSE derived_score(r),
     kind        |-> IF "kind" \in cols THEN lower(strip(astype_str(r.kind)))
                     ELSE <<>>]

RECURSIVE MapRows(_, _)
MapRows(cols, rows) ==
    IF Len(rows) = 0 THEN <<>>
    ELSE <<prepared_row(cols, rows[1])>> \o MapRows(cols, Tail(rows))

RECURSIVE CoerceRows(_)
CoerceRows(rows) ==
    IF Len(rows) = 0 THEN <<>>
    ELSE <<coerce(rows[1])>> \o CoerceRows(Tail(rows))

Keep(r) == notna(r) /\ sanity(r)

\* prepare_for_app(df): an error naming the first missing required column, or
\* the prepared table with the columns it has
prepare_for_app(frame) ==
    IF MissingRequired(frame.cols) # {}
    THEN [ok |-> FALSE,
          missing |-> required[CHOOSE i \in MissingRequired(frame.cols) :
                          \A j \in MissingRequired(frame.cols) : i <= j],
          cols |-> {}, rows |-> <<>>]
    ELSE [ok |-> TRUE,
          missing |-> "",
          cols |-> frame.cols \cup {"meal_slot", "why", "final_score"},
          rows |-> MapRows(frame.cols, SelectSeq(CoerceRows(frame.rows), Keep))]

(***************************************************************************)
(* recommend                                                               *)
(***************************************************************************)
Max(a, b) == IF a >= b THEN a ELSE b
Min(a, b) == IF a <= b THEN a ELSE b
Abs(a) == IF a >= 0 THEN a ELSE -a

head_one_more(s, n) == SubSeq(s, 1, Min(n + 1, Len(s)))

\* DataFrame.head(n): the first n rows, or all but the last -n rows when n < 0
head(s, n) ==
    IF n >= 0 THEN SubSeq(s, 1, Min(n, Len(s)))
    ELSE SubSeq(s, 1, Max(Len(s) + n, 0))

\* lines 195-196: suhoor and iftar keep the rows of that slot and of either
slot_filter(pool, meal) ==
    IF meal \in {s_suhoor, s_iftar}
    THEN LET ok(r) == r.meal_slot \in {meal, s_either} IN SelectSeq(pool, ok)
    ELSE pool

hard_filter_no_sodium(pool, calories_max, protein_min, sodium_max) ==
    LET ok(r) == r.calories <= calories_max /\ r.protein >= protein_min
    IN  SelectSeq(pool, ok)

\* lines 198-202: the three nutritional bounds
hard_filter(pool, calories_max, protein_min, sodium_max) ==
    LET ok(r) == /\ r.calories <= calories_max
                 /\ r.protein >= protein_min
                 /\ r.sodium <= sodium_max
    IN  SelectSeq(pool, ok)

\* lines 208-209, times max(calories_max, 1):
\* clip(1 - |calories - calories_max| / max(calories_max, 1), 0, 1)
calorie_fit(calories, calories_max) ==
    LET m == Max(calories_max, 1)
    IN  Min(Max(m - Abs(calories - calories_max), 0), m)

score_no_fit(r, calories_max) == r.final_score * Max(calories_max, 1)

\* line 211, times 1200 * max(calories_max, 1): final_score + 0.6 * calorie_fit
score(r, calories_max) ==
    r.final_score * Max(calories_max, 1) + 720 * calorie_fit(r.calories, calories_max)

with_score(pool, calories_max) ==
    [i \in 1..Len(pool) |->
        [title |-> pool[i].title, calories |-> pool[i].calories,
         protein |-> pool[i].protein, fat |-> pool[i].fat,
         sodium |-> pool[i].sodium, meal_slot |-> pool[i].meal_slot,
         why |-> pool[i].why, final_score |-> pool[i].final_score,
         kind |-> pool[i].kind,
         calorie_fit |-> calorie_fit(pool[i].calories, calories_max),
         score |-> score(pool[i], calories_max)]]

Perms(s) ==
    {[i \in 1..Len(s) |-> s[p[i]]] : p \in Permutations(1..Len(s))}

\* sort_values("score", ascending=False).  The default sort is not stable, so
\* rows of equal score may come out in any order: every ordering by
\* non-increasing score is a possible outcome.
sort_values(s) ==
    {q \in Perms(s) : \A i, j \in 1..Len(q) : i < j => q[i].score >= q[j].score}

per_kind_cap_half(top_n) == Max(1, top_n \div 2)

\* line 217
per_kind_cap(top_n) == Max(1, top_n \div 4)

\* the order groupby gives its keys: ascending, character by character
AllChars == <<"\t", "\n", " ", "+", "-">> \o DigitChars \o UpperChars \o <<"_">> \o LowerChars \o <<"|">>

ord(c) == CHOOSE i \in 1..Len(AllChars) : AllChars[i] = c

RECURSIVE str_less(_, _)
str_less(a, b) ==
    IF Len(b) = 0 THEN FALSE
    ELSE IF Len(a) = 0 THEN TRUE
    ELSE IF ord(a[1]) # ord(b[1]) THEN ord(a[1]) < ord(b[1])
    ELSE str_less(Tail(a), Tail(b))

RECURSIVE sorted_keys(_)
sorted_keys(K) ==
    IF K = {} THEN <<>>
    ELSE LET k == CHOOSE x \in K : \A y \in K \ {x} : str_less(x, y)
         IN  <<k>> \o sorted_keys(K \ {k})

KindsOf(pool) == {pool[i].kind : i \in 1..Len(pool)}

RECURSIVE concat_heads(_, _, _)
concat_heads(pool, keys, cap) ==
    IF Len(keys) = 0 THEN <<>>
    ELSE LET grp(r) == r.kind = keys[1]
         IN  head(SelectSeq(pool, grp), cap) \o concat_heads(pool, Tail(keys), cap)

\* lines 215-221: the per-kind heads of the sorted pool, concatenated in key
\* order, sorted again and cut to top_n
diversify(pool, top_n) ==
    {head(q, top_n) :
        q \in sort_values(concat_heads(pool, sorted_keys(KindsOf(pool)),
                                       per_kind_cap(top_n)))}

\* recommend(df, meal, calories_max, protein_min, sodium_max, top_n): the set of
\* results the call can return (one per way of ordering rows of equal score)
recommend(table, meal, calories_max, protein_min, sodium_max, top_n) ==
    LET m    == lower(strip(meal))
        pool == hard_filter(slot_filter(table.rows, m),
                            calories_max, protein_min, sodium_max)
    IN  IF Len(pool) = 0 THEN {<<>>}
        ELSE IF "kind" \in table.cols
        THEN UNION {diversify(p, top_n) :
                        p \in sort_values(with_score(pool, calories_max))}
        ELSE {head(p, top_n) : p \in sort_values(with_score(pool, calories_max))}

(***************************************************************************)
(* Inputs of the data loader: frames of at most MaxRawRows rows.  A row is  *)
(* the base row with one cell replaced, so that each column is taken to    *)
(* both sides of each of its limits while the other columns are valid.     *)
(***************************************************************************)
MaxRawRows == 2

BaseRaw ==
    [title |-> Str(<<"A">>), calories |-> Num(500), protein |-> Num(30),
     fat |-> Num(10), sodium |-> Num(500),
     meal_slot |-> Str(<<" ","S","u","h","o","o","r"," ">>),
     why |-> Str(<<"w">>), final_score |-> Num(100),
     kind |-> Str(<<" ","S","o","u","p">>)]

RawRows ==
    {BaseRaw, [BaseRaw EXCEPT !.title = NaN]}
    \cup {[BaseRaw EXCEPT !.calories = c] :
            c \in {Num(0), Num(1), Num(1993), Num(1994), NaN,
                   Str(<<"x">>), Str(<<"1","2">>)}}
    \cup {[BaseRaw EXCEPT !.protein = c] :
            c \in {Num(-1), Num(0), Num(200), Num(201), NaN}}
    \cup {[BaseRaw EXCEPT !.fat = c] :
            c \in {Num(-1), Num(0), Num(194), Num(195), Str(<<"x">>)}}
    \cup {[BaseRaw EXCEPT !.sodium = c] :
            c \in {Num(-1), Num(0), Num(5980), Num(5981), NaN}}
    \cup {[BaseRaw EXCEPT !.meal_slot = c] :
            c \in {Str(<<"I","F","T","A","R">>), Str(s_either),
                   Str(<<"l","u","n","c","h">>), Str(<<>>), NaN, Num(3)}}
    \cup {[BaseRaw EXCEPT !.kind = c] :
            c \in {NaN, Str(<<"S","a","l","a","d"," ">>)}}

RequiredCols == {required[i] : i \in 1..Len(required)}
OptionalCols == {"meal_slot", "why", "final_score", "kind"}

RawColumnSets ==
    {RequiredCols \cup o : o \in {{}, OptionalCols, {"meal_slot"}, {"kind"},
                                  {"why"}, {"final_score"}}}
    \cup {(RequiredCols \ {c}) \cup OptionalCols : c \in RequiredCols}
    \cup {(RequiredCols \ {"calories", "sodium"}) \cup OptionalCols,
          (RequiredCols \ {"title", "fat"}) \cup OptionalCols}

SeqsUpTo(S, n) == UNION {[1..k -> S] : k \in 0..n}

RawFrames == [cols : RawColumnSets, rows : SeqsUpTo(RawRows, MaxRawRows)]

(***************************************************************************)
(* Inputs of the recommender: prepared tables of at most MaxRows rows and  *)
(* constraint sets inside and outside the ranges of the sliders.           *)
(***************************************************************************)
MaxRows == 3

Titles == <<Str(<<"A">>), Str(<<"B">>), Str(<<"C">>), Str(<<"D">>), Str(<<"E">>)>>

k_soup  == <<"s","o","u","p">>
k_salad == <<"s","a","l","a","d">>

BaseRow(kind) ==
    [title |-> Titles[1], calories |-> 600, protein |-> 30, fat |-> 10,
     sodium |-> 500, meal_slot |-> s_either, why |-> <<"w">>,
     final_score |-> 360, kind |-> kind]

\* (calories, final_score) of the rows that differ only in rank: at
\* calories_max = 600 the first two have the same score
RankPairs == {<<300, 360>>, <<600, 0>>, <<600, 360>>}

RowsOfKinds(kinds) ==
    {[BaseRow(k) EXCEPT !.calories = cf[1], !.final_score = cf[2]] :
        k \in kinds, cf \in RankPairs}
    \cup {[BaseRow(k) EXCEPT !.protein = 10] : k \in {CHOOSE x \in kinds : TRUE}}
    \cup {[BaseRow(k) EXCEPT !.sodium = 2000] : k \in {CHOOSE x \in kinds : TRUE}}
    \cup {[BaseRow(k) EXCEPT !.meal_slot = s] :
            k \in {CHOOSE x \in kinds : TRUE}, s \in {s_suhoor, s_iftar}}

\* the rows of a table carry the titles A, B, C, ... in order
Entitled(rows) == [i \in 1..Len(rows) |-> [rows[i] EXCEPT !.title = Titles[i]]]

PreparedCols == RequiredCols \cup {"meal_slot", "why", "final_score"}

Tables ==
    {[cols |-> PreparedCols \cup {"kind"}, rows |-> Entitled(rs)] :
        rs \in SeqsUpTo(RowsOfKinds({k_soup, k_salad}), MaxRows)}
    \cup {[cols |-> PreparedCols, rows |-> Entitled(rs)] :
        rs \in SeqsUpTo(RowsOfKinds({<<>>}), MaxRows)}

BaseReq ==
    [meal |-> s_either, calories_max |-> 600, protein_min |-> 20,
     sodium_max |-> 1200, top_n |-> 2]

Requests ==
    {[BaseReq EXCEPT !.top_n = n] : n \in {0, 1, 2, 4, 8}}
    \cup {[BaseReq EXCEPT !.calories_max = 700, !.top_n = n] : n \in {1, 2}}
    \cup {[BaseReq EXCEPT !.meal = m] :
            m \in {s_suhoor, <<" ","I","f","t","a","r"," ">>,
                   <<"l","u","n","c","h">>}}
    \cup {[BaseReq EXCEPT !.protein_min = 0], [BaseReq EXCEPT !.sodium_max = 6000],
          [BaseReq EXCEPT !.calories_max = 300], [BaseReq EXCEPT !.calories_max = 0]}

(***************************************************************************)
(* State that a specification does not use stays at these values.          *)
(***************************************************************************)
NoFrame    == [cols |-> {}, rows |-> <<>>]
NoPrepared == [ok |-> FALSE, missing |-> "", cols |-> {}, rows |-> <<>>]
NoReq      == [meal |-> <<>>, calories_max |-> 0, protein_min |-> 0,
               sodium_max |-> 0, top_n |-> 0]
NoCalls    == [ensure |-> 0, log |-> 0]
Idle       == [op |-> "none", name |-> <<>>, fail |-> "none", notices |-> <<>>,
               view |-> <<>>, shown |-> FALSE, computed |-> FALSE,
               calls |-> NoCalls, page |-> "page_login"]

(***************************************************************************)
(* The data loader alone: a frame is prepared once.                        *)
(***************************************************************************)
InitPrep ==
    /\ logged_in = FALSE /\ username = <<>> /\ sheet = <<>> /\ ui = Idle
    /\ appended = {} /\ ensured = 0 /\ wrote = FALSE
    /\ csv \in RawFrames
    /\ prepared = NoPrepared
    /\ df = NoFrame /\ req = NoReq /\ recs = <<>>

Prepare ==
    /\ ui.op = "none"
    /\ prepared' = prepare_for_app(csv)
    /\ ui' = [ui EXCEPT !.op = "prepare_for_app"]
    /\ UNCHANGED <<logged_in, username, sheet, appended, ensured, wrote,
                   csv, df, req, recs>>

NextPrep == Prepare

SpecPrep == InitPrep /\ [][NextPrep]_vars

(***************************************************************************)
(* The recommender alone: calls on one prepared table.                     *)
(***************************************************************************)
InitRec ==
    /\ logged_in = FALSE /\ username = <<>> /\ sheet = <<>> /\ ui = Idle
    /\ appended = {} /\ ensured = 0 /\ wrote = FALSE
    /\ csv = NoFrame /\ prepared = NoPrepared
    /\ df \in Tables
    /\ req = NoReq /\ recs = <<>>

Recommend ==
    /\ ui.op = "none"
    /\ \E q \in Requests :
         \E r \in recommend(df, q.meal, q.calories_max, q.protein_min,
                            q.sodium_max, q.top_n) :
            /\ req' = q
            /\ recs' = r
            /\ ui' = [ui EXCEPT !.op = "recommend"]
            /\ UNCHANGED <<logged_in, username, sheet, appended, ensured, wrote,
                           csv, prepared, df>>

NextRec == Recommend

SpecRec == InitRec /\ [][NextRec]_vars

(***************************************************************************)
(* The audit sheet.  A row is the sequence of its cells' texts, as         *)
(* row_values returns them; a number written to a cell reads back as its   *)
(* digits.                                                                 *)
(***************************************************************************)
LOG_COLUMNS ==
    <<<<"t","i","m","e","s","t","a","m","p">>,
      <<"u","s","e","r","n","a","m","e">>,
      <<"m","e","a","l">>,
      <<"c","a","l","o","r","i","e","s","_","m","a","x">>,
      <<"p","r","o","t","e","i","n","_","m","i","n">>,
      <<"s","o","d","i","u","m","_","m","a","x">>,
      <<"t","o","p","_","n">>,
      <<"r","e","s","u","l","t","s","_","t","i","t","l","e","s">>>>

\* the width of the range A1:H1
HeaderWidth == 8

RECURSIVE drop_trailing_empty(_)
drop_trailing_empty(cells) ==
    IF Len(cells) > 0 /\ cells[Len(cells)] = <<>>
    THEN drop_trailing_empty(SubSeq(cells, 1, Len(cells) - 1))
    ELSE cells

\* ws.row_values(1): the first row's cells up to the last one that is not
\* empty; no cells when the sheet has no row
row_values(ws, n) ==
    IF Len(ws) < n THEN <<>> ELSE drop_trailing_empty(ws[n])

normalized(cells) == [i \in 1..Len(cells) |-> lower(strip(cells[i]))]

\* ws.update("A1:H1", [values]): the first eight cells of row 1 are written,
\* the cells to their right are left as they are
update_A1_H1(ws, values) ==
    IF Len(ws) = 0 THEN <<values>>
    ELSE <<values \o SubSeq(ws[1], HeaderWidth + 1, Len(ws[1]))>> \o Tail(ws)

\* ws.append_row(row): the row goes below the last row of the sheet
append_row(ws, row) == Append(ws, row)

header_differs(ws) == normalized(row_values(ws, 1)) # LOG_COLUMNS

\* ensure_sheet_header(): the sheet it leaves
ensure_sheet_header(ws) ==
    IF header_differs(ws) THEN update_A1_H1(ws, LOG_COLUMNS) ELSE ws

two_digits(n) == <<DigitChars[(n \div 10) + 1], DigitChars[(n % 10) + 1]>>

\* datetime.now().strftime("%Y-%m-%d %H:%M:%S"), the clock read as the
\* seconds of one minute
strftime(now) ==
    <<"2","0","2","6","-","0","1","-","0","1"," ","1","2",":","0","0",":">>
    \o two_digits(now)

log_row_no_titles(now, user, meal, calories_max, protein_min, sodium_max, top_n, titles) ==
    <<strftime(now), user, meal, str_int(calories_max), str_int(protein_min),
      str_int(sodium_max), str_int(top_n), <<>>>>

\* log_request: the row it appends
log_row(now, user, meal, calories_max, protein_min, sodium_max, top_n, titles) ==
    <<strftime(now), user, meal, str_int(calories_max), str_int(protein_min),
      str_int(sodium_max), str_int(top_n), titles>>

\* gsheets_test.py line 23
TEST_ROW ==
    <<<<"T","E","S","T">>, <<"d","o","d","o">>, s_suhoor, str_int(700),
      str_int(20), str_int(1200), str_int(10), <<"O","K">>>>

title_texts(rows) == [i \in 1..Len(rows) |-> astype_str(rows[i].title)]

\* line 390: " | ".join(recs["title"].astype(str).head(top_n).tolist())
titles_of(rows, top_n) == join(<<" ", "|", " ">>, head(title_texts(rows), top_n))

\* lines 382-387: the columns shown, score under the name final_score
view_of(table, rows) ==
    [i \in 1..Len(rows) |->
        [title |-> rows[i].title,
         kind |-> IF "kind" \in table.cols THEN rows[i].kind ELSE <<>>,
         meal_slot |-> rows[i].meal_slot, calories |-> rows[i].calories,
         protein |-> rows[i].protein, fat |-> rows[i].fat,
         sodium |-> rows[i].sodium, final_score |-> rows[i].score,
         why |-> rows[i].why]]

(***************************************************************************)
(* The application: the session, the two pages and the sheet.              *)
(***************************************************************************)
MaxSheetRows == 2
\* the seconds datetime.now() may read
ClockReadings == {7, 42}

\* lines 405-408
router == IF logged_in THEN "page_recs" ELSE "page_login"

page_after(li) == IF li THEN "page_recs" ELSE "page_login"

LoginNames ==
    {<<>>, <<" ", "\t">>, <<"a","l">>, <<" ","M","o"," ">>}

UiMeals    == {s_suhoor, s_iftar, s_either}
UiCalories == {100, 700}
UiProtein  == {20}
UiSodium   == {1200}
UiTopN     == {1, 10}

Outcomes == {"none", "header", "append"}

GoodCsv ==
    [cols |-> RequiredCols \cup {"meal_slot"},
     rows |-> <<[BaseRaw EXCEPT !.title = Str(<<"A">>), !.meal_slot = Str(s_suhoor)],
                [BaseRaw EXCEPT !.title = Str(<<"B">>), !.calories = Num(900),
                                !.protein = Num(10), !.sodium = Num(2000),
                                !.meal_slot = Str(s_iftar)],
                [BaseRaw EXCEPT !.title = Str(<<"C">>), !.calories = Num(600),
                                !.meal_slot = Str(s_either)]>>]

BadCsv == [GoodCsv EXCEPT !.cols = @ \ {"sodium"}]

InitialSheets ==
    {<<>>,
     <<LOG_COLUMNS>>,
     <<[LOG_COLUMNS EXCEPT ![1] = <<" ","T","i","m","e","s","t","a","m","p"," ">>]>>,
     <<SubSeq(LOG_COLUMNS, 1, 3)>>,
     <<LOG_COLUMNS \o <<<<"n","o","t","e">>>>>>,
     <<<<<<"x">>, <<"y">>>>>>}

Init ==
    /\ logged_in = FALSE
    /\ username = <<>>
    /\ sheet \in InitialSheets
    /\ ui = Idle
    /\ appended = {}
    /\ ensured = 0
    /\ wrote = FALSE
    /\ csv \in {GoodCsv, BadCsv}
    /\ prepared = NoPrepared
    /\ df = NoFrame
    /\ req = NoReq
    /\ recs = <<>>

do_login_unstripped(name) ==
    /\ router = "page_login"
    /\ IF name = <<>>
       THEN /\ ui' = [Idle EXCEPT !.op = "do_login", !.name = name,
                                  !.notices = <<"error_login">>,
                                  !.page = page_after(logged_in)]
            /\ UNCHANGED <<logged_in, username>>
       ELSE /\ username' = name
            /\ logged_in' = TRUE
            /\ ui' = [Idle EXCEPT !.op = "do_login", !.name = name,
                                  !.page = page_after(TRUE)]
    /\ UNCHANGED <<sheet, appended, ensured, wrote, csv, prepared, df, req, recs>>

\* do_login(name), called by the button of the login page
do_login(name) ==
    /\ router = "page_login"
    /\ IF strip(name) = <<>>
       THEN /\ ui' = [Idle EXCEPT !.op = "do_login", !.name = name,
                                  !.notices = <<"error_login">>,
                                  !.page = page_after(logged_in)]
            /\ UNCHANGED <<logged_in, username>>
       ELSE /\ username' = strip(name)
            /\ logged_in' = TRUE
            /\ ui' = [Idle EXCEPT !.op = "do_login", !.name = name,
                                  !.page = page_after(TRUE)]
    /\ UNCHANGED <<sheet, appended, ensured, wrote, csv, prepared, df, req, recs>>

\* go_login(), called by the logout button of the recommendation page
go_login ==
    /\ router = "page_recs"
    /\ logged_in' = FALSE
    /\ username' = <<>>
    /\ ui' = [Idle EXCEPT !.op = "go_login", !.page = page_after(FALSE)]
    /\ UNCHANGED <<sheet, appended, ensured, wrote, csv, prepared, df, req, recs>>

result_ui_log_first(p, r, fail) ==
    IF Len(r) = 0
    THEN [Idle EXCEPT !.op = "page_recs", !.computed = TRUE,
                      !.notices = <<"warning">>,
                      !.calls = [ensure |-> 1, log |-> 0], !.page = "page_recs"]
    ELSE IF fail = "append"
    THEN [Idle EXCEPT !.op = "page_recs", !.computed = TRUE,
                      !.fail = "append", !.notices = <<"error">>,
                      !.calls = [ensure |-> 1, log |-> 1], !.page = "page_recs"]
    ELSE [Idle EXCEPT !.op = "page_recs", !.computed = TRUE, !.shown = TRUE,
                      !.view = view_of(p, r), !.notices = <<"success">>,
                      !.calls = [ensure |-> 1, log |-> 1], !.page = "page_recs"]

\* lines 379-395: what the page shows once recommend has returned r.  An empty
\* result is a warning and no call to log_request; otherwise the table is
\* displayed, then log_request is called once, and its failure is caught by
\* the handler of line 394, which replaces the success notice by the error.
result_ui(p, r, fail) ==
    IF Len(r) = 0
    THEN [Idle EXCEPT !.op = "page_recs", !.computed = TRUE,
                      !.notices = <<"warning">>,
                      !.calls = [ensure |-> 1, log |-> 0], !.page = "page_recs"]
    ELSE [Idle EXCEPT !.op = "page_recs", !.computed = TRUE, !.shown = TRUE,
                      !.view = view_of(p, r),
                      !.fail = IF fail = "append" THEN "append" ELSE "none",
                      !.notices = IF fail = "append" THEN <<"error">>
                                  ELSE <<"success">>,
                      !.calls = [ensure |-> 1, log |-> 1], !.page = "page_recs"]

\* what page_recs does once ensure_sheet_header has returned with the sheet ws:
\* lines 375-393.  prepare_for_app is decorated with st.cache_data: a table it
\* has returned for the frame is returned again without being recomputed (an
\* exception is not cached).
after_header(ws, q, fail) ==
    LET p == IF prepared.ok THEN prepared ELSE prepare_for_app(csv)
    IN  /\ prepared' = p
        /\ req' = q
        /\ IF ~p.ok
           THEN /\ ui' = [Idle EXCEPT !.op = "page_recs", !.fail = "dataset",
                                      !.notices = <<"error">>,
                                      !.calls = [ensure |-> 1, log |-> 0],
                                      !.page = "page_recs"]
                /\ sheet' = ws
                /\ UNCHANGED <<df, recs, appended>>
           ELSE /\ df' = [cols |-> p.cols, rows |-> p.rows]
                /\ \E r \in recommend([cols |-> p.cols, rows |-> p.rows], q.meal,
                                      q.calories_max, q.protein_min,
                                      q.sodium_max, q.top_n) :
                      /\ recs' = r
                      /\ ui' = result_ui(p, r, fail)
                      /\ IF Len(r) = 0 \/ fail = "append"
                         THEN sheet' = ws /\ UNCHANGED appended
                         ELSE \E now \in ClockReadings :
                                LET row == log_row(now, username, q.meal,
                                                   q.calories_max, q.protein_min,
                                                   q.sodium_max, q.top_n,
                                                   titles_of(r, q.top_n))
                                IN  /\ sheet' = append_row(ws, row)
                                    /\ appended' = appended \cup
                                          {[at |-> Len(ws) + 1, row |-> row]}

\* the "show recommendations" button of page_recs: lines 371-395
page_recs(q, fail) ==
    /\ router = "page_recs"
    /\ Len(sheet) < MaxSheetRows
    /\ IF fail = "header"
       THEN /\ ui' = [Idle EXCEPT !.op = "page_recs", !.fail = "header",
                                  !.notices = <<"error">>,
                                  !.calls = [ensure |-> 1, log |-> 0],
                                  !.page = "page_recs"]
            /\ req' = q
            /\ UNCHANGED <<sheet, appended, ensured, wrote, prepared, df, recs>>
       ELSE /\ ensured' = Min(ensured + 1, 2)
            /\ wrote' = header_differs(sheet)
            /\ after_header(ensure_sheet_header(sheet), q, fail)
    /\ UNCHANGED <<logged_in, username, csv>>

\* gsheets_test.py, run on its own against the same worksheet
gsheets_test ==
    /\ Len(sheet) < MaxSheetRows
    /\ sheet' = append_row(sheet, TEST_ROW)
    /\ appended' = appended \cup {[at |-> Len(sheet) + 1, row |-> TEST_ROW]}
    /\ ui' = [Idle EXCEPT !.op = "gsheets_test", !.page = router]
    /\ UNCHANGED <<logged_in, username, ensured, wrote, csv, prepared, df, req, recs>>

UiRequests ==
    [meal : UiMeals, calories_max : UiCalories, protein_min : UiProtein,
     sodium_max : UiSodium, top_n : UiTopN]

Login == \E name \in LoginNames : do_login(name)

Logout == go_login

Show ==
    \E q \in UiRequests, fail \in Outcomes : page_recs(q, fail)

SheetTest == gsheets_test

Next == Login \/ Logout \/ Show \/ SheetTest

Spec == Init /\ [][Next]_vars

(***************************************************************************)
(* What the properties below are stated with.  These are written from the  *)
(* statements, not taken from the definitions above.                       *)
(***************************************************************************)
Called == ui.op = "recommend"

\* a row meets the request's three bounds and its slot
Qualifies(r, q) ==
    /\ r.calories <= q.calories_max
    /\ r.protein >= q.protein_min
    /\ r.sodium <= q.sodium_max
    /\ (lower(strip(q.meal)) \in {s_suhoor, s_iftar}
            => r.meal_slot \in {lower(strip(q.meal)), s_either})

QualifyingRows == {i \in 1..Len(df.rows) : Qualifies(df.rows[i], req)}

ReturnedTitles == {recs[i].title : i \in 1..Len(recs)}

LeftOut == {i \in QualifyingRows : df.rows[i].title \notin ReturnedTitles}

\* final_score + 0.6 * clamp(1 - |calories - calories_max| / max(calories_max, 1), 0, 1),
\* times 1200 * max(calories_max, 1)
StatedScore(r, q) ==
    LET m == IF q.calories_max >= 1 THEN q.calories_max ELSE 1
        d == IF r.calories >= q.calories_max THEN r.calories - q.calories_max
             ELSE q.calories_max - r.calories
    IN  r.final_score * m + 720 * (IF d >= m THEN 0 ELSE m - d)

StatedCap == IF req.top_n \div 4 >= 1 THEN req.top_n \div 4 ELSE 1

\* the columns of the input table, of a returned row
InputColumns(r) ==
    [title |-> r.title, calories |-> r.calories, protein |-> r.protein,
     fat |-> r.fat, sodium |-> r.sodium, meal_slot |-> r.meal_slot,
     why |-> r.why, final_score |-> r.final_score, kind |-> r.kind]

(***************************************************************************)
(* C1: every row recommend returns is a row of the input table that meets  *)
(* calories <= calories_max, protein >= protein_min, sodium <= sodium_max  *)
(* and, when the trimmed lowercased meal is suhoor or iftar, has that slot *)
(* or either.                                                              *)
(***************************************************************************)
C1_ReturnedRowsQualify ==
    Called =>
        \A i \in 1..Len(recs) :
            /\ \E j \in 1..Len(df.rows) : df.rows[j] = InputColumns(recs[i])
            /\ Qualifies(recs[i], req)

\* a suhoor request on a table holding an iftar row and a row over the sodium
\* bound, answered with a row
C1_Witness ==
    /\ Called
    /\ req.meal = s_suhoor
    /\ Len(recs) >= 1
    /\ \E j \in 1..Len(df.rows) : df.rows[j].meal_slot = s_iftar
    /\ \E j \in 1..Len(df.rows) : df.rows[j].sodium > req.sodium_max

(***************************************************************************)
(* C2: recommend returns at most top_n rows, for every top_n >= 0, with or *)
(* without a kind column.                                                  *)
(***************************************************************************)
C2_AtMostTopN == Called /\ req.top_n >= 0 => Len(recs) <= req.top_n

\* top_n = 1 on a table with a kind column whose qualifying rows are of two kinds
C2_Witness ==
    /\ Called
    /\ req.top_n = 1
    /\ "kind" \in df.cols
    /\ \E i, j \in QualifyingRows : df.rows[i].kind # df.rows[j].kind
    /\ Len(recs) = 1

(***************************************************************************)
(* C3: with a kind column, at most max(1, top_n // 4) returned rows are of *)
(* one kind, no qualifying row of a kind that was left out scores higher   *)
(* than a returned row of that kind, and the result is no longer than the  *)
(* number of kinds among the qualifying rows times that cap.               *)
(***************************************************************************)
C3_PerKindCap ==
    Called /\ "kind" \in df.cols =>
        /\ \A k \in {recs[i].kind : i \in 1..Len(recs)} :
              Cardinality({i \in 1..Len(recs) : recs[i].kind = k}) <= StatedCap
        /\ \A j \in LeftOut : \A i \in 1..Len(recs) :
              df.rows[j].kind = recs[i].kind
                  => StatedScore(df.rows[j], req) <= StatedScore(recs[i], req)
        /\ Len(recs) <= Cardinality({df.rows[j].kind : j \in QualifyingRows}) * StatedCap

\* top_n = 4, three qualifying rows of two kinds: two rows come back
C3_Witness ==
    /\ Called
    /\ "kind" \in df.cols
    /\ req.top_n = 4
    /\ Cardinality(QualifyingRows) = 3
    /\ Cardinality({df.rows[j].kind : j \in QualifyingRows}) = 2
    /\ Len(recs) = 2

(***************************************************************************)
(* C10: the returned rows carry score = final_score + 0.6 * calorie_fit    *)
(* and are in non-increasing order of it; without a kind column they are   *)
(* the first min(top_n, number of qualifying rows) of that order, so no    *)
(* qualifying row left out scores strictly higher than a returned one; and *)
(* of two rows of equal final_score the one with more calories ranks       *)
(* first.                                                                  *)
(***************************************************************************)
C10_RankedByScore ==
    Called /\ req.top_n >= 0 =>
        /\ \A i \in 1..Len(recs) : recs[i].score = StatedScore(recs[i], req)
        /\ \A i, j \in 1..Len(recs) : i < j => recs[i].score >= recs[j].score
        /\ \A i, j \in 1..Len(recs) :
              /\ recs[i].final_score = recs[j].final_score
              /\ recs[i].calories > recs[j].calories
              => i < j
        /\ "kind" \notin df.cols =>
              /\ Len(recs) = (IF req.top_n <= Cardinality(QualifyingRows)
                              THEN req.top_n ELSE Cardinality(QualifyingRows))
              /\ \A j \in LeftOut : \A i \in 1..Len(recs) :
                    /\ StatedScore(df.rows[j], req) <= recs[i].score
                    /\ df.rows[j].final_score = recs[i].final_score
                           => df.rows[j].calories <= recs[i].calories

\* no kind column, top_n = 2, three qualifying rows, the one left out scoring
\* as much as the second returned
C10_Witness ==
    /\ Called
    /\ "kind" \notin df.cols
    /\ req.top_n = 2
    /\ Len(recs) = 2
    /\ recs[1].score > recs[2].score
    /\ \E j \in LeftOut : StatedScore(df.rows[j], req) = recs[2].score

(***************************************************************************)
(* C9: for a raw table with the five required columns, every prepared row  *)
(* has a title, 1 <= calories <= 1993, 0 <= protein <= 200,                *)
(* 0 <= fat <= 194, 0 <= sodium <= 5980 and a slot among suhoor, iftar,    *)
(* either: the trimmed lowercased raw slot when that is one of the three,  *)
(* either otherwise; a raw table lacking a required column gives an error  *)
(* naming a column it lacks, and no table.                                 *)
(***************************************************************************)
Prepared == ui.op = "prepare_for_app"

\* the number a raw nutrient cell stands for, when it stands for one
Stands(c) == c.t = "num" \/ c = Str(<<"1","2">>)
ValueOf(c) == IF c.t = "num" THEN c.n ELSE 12

InRange(c, lo, hi) == Stands(c) /\ lo <= ValueOf(c) /\ ValueOf(c) <= hi

\* the raw rows the stated ranges admit
Admitted(r) ==
    /\ r.title # NaN
    /\ InRange(r.calories, 1, 1993)
    /\ InRange(r.protein, 0, 200)
    /\ InRange(r.fat, 0, 194)
    /\ InRange(r.sodium, 0, 5980)

StatedSlot(cols, r) ==
    IF "meal_slot" \notin cols THEN s_either
    ELSE IF r.meal_slot = Str(<<" ","S","u","h","o","o","r"," ">>) THEN s_suhoor
    ELSE IF r.meal_slot = Str(<<"I","F","T","A","R">>) THEN s_iftar
    ELSE s_either

\* C9: prepared rows are titled, in range and slotted; a frame lacking a
\* required column gives the error naming it and no table
C9_PreparedRowsInRange ==
    Prepared =>
        IF RequiredCols \subseteq csv.cols
        THEN /\ prepared.ok
             /\ \A i \in 1..Len(prepared.rows) :
                   LET r == prepared.rows[i]
                   IN  /\ r.title # NaN
                       /\ 1 <= r.calories /\ r.calories <= 1993
                       /\ 0 <= r.protein /\ r.protein <= 200
                       /\ 0 <= r.fat /\ r.fat <= 194
                       /\ 0 <= r.sodium /\ r.sodium <= 5980
                       /\ r.meal_slot \in {s_suhoor, s_iftar, s_either}
             /\ LET kept == SelectSeq(csv.rows, Admitted)
                IN  /\ Len(prepared.rows) = Len(kept)
                    /\ \A i \in 1..Len(kept) :
                          prepared.rows[i].meal_slot = StatedSlot(csv.cols, kept[i])
        ELSE /\ ~prepared.ok
             /\ prepared.missing \in RequiredCols \ csv.cols
             /\ prepared.rows = <<>>

\* two raw rows, one over the fat limit, the other with the slot IFTAR
C9_Witness ==
    /\ Prepared
    /\ prepared.ok
    /\ "meal_slot" \in csv.cols
    /\ Len(csv.rows) = 2
    /\ \E i \in 1..2 : csv.rows[i].fat = Num(195)
    /\ Len(prepared.rows) = 1
    /\ prepared.rows[1].meal_slot = s_iftar

(***************************************************************************)
(* C7: logged_in holds exactly when username is a non-empty string with no *)
(* surrounding whitespace; do_login with an empty or blank name changes    *)
(* nothing and shows the validation message; do_login with another name    *)
(* stores the trimmed name and logs in; go_login empties username and logs *)
(* out; the recommendation page is shown only when logged in.              *)
(***************************************************************************)
Blank(name) == \A i \in 1..Len(name) : name[i] \in Whitespace

Trimmed(name) ==
    IF name = <<" ","M","o"," ">> THEN <<"M","o">> ELSE name

\* C7: logged_in iff username is non-empty and trimmed, and the effects of
\* do_login, go_login and the router
C7_SessionMachine ==
    /\ logged_in <=>
          /\ Len(username) > 0
          /\ username[1] \notin Whitespace
          /\ username[Len(username)] \notin Whitespace
    /\ ui.page = "page_recs" => logged_in
    /\ ui.op = "page_recs" => logged_in
    /\ ui.op = "do_login" /\ Blank(ui.name) =>
          /\ ~logged_in /\ username = <<>>
          /\ ui.notices = <<"error_login">>
          /\ ui.page = "page_login"
    /\ ui.op = "do_login" /\ ~Blank(ui.name) =>
          /\ logged_in /\ username = Trimmed(ui.name)
          /\ ui.page = "page_recs"
    /\ ui.op = "go_login" => ~logged_in /\ username = <<>> /\ ui.page = "page_login"

\* a login with a padded name
C7_Witness ==
    /\ ui.op = "do_login"
    /\ ui.name = <<" ","M","o"," ">>
    /\ logged_in
    /\ username = <<"M","o">>

(***************************************************************************)
(* C5: a "show recommendations" interaction whose remote calls succeed     *)
(* appends exactly one row when recommend returned rows and none when it   *)
(* returned none; the row holds a timestamp, the session username, the     *)
(* request's meal, calories_max, protein_min, sodium_max and top_n, and    *)
(* the titles of the returned rows, in order, joined with " | ".  Login    *)
(* and logout append nothing.                                              *)
(***************************************************************************)
StatedDigits(n) ==
    CASE n = 1    -> <<"1">>
      [] n = 10   -> <<"1","0">>
      [] n = 20   -> <<"2","0">>
      [] n = 100  -> <<"1","0","0">>
      [] n = 700  -> <<"7","0","0">>
      [] n = 1200 -> <<"1","2","0","0">>

StatedTitles(rows) ==
    CASE Len(rows) = 1 -> rows[1].title.s
      [] Len(rows) = 2 -> rows[1].title.s \o <<" ","|"," ">> \o rows[2].title.s
      [] Len(rows) = 3 -> rows[1].title.s \o <<" ","|"," ">> \o rows[2].title.s
                          \o <<" ","|"," ">> \o rows[3].title.s

\* the rows the sheet holds once its header row exists
RowsWithHeader == IF Len(sheet) = 0 THEN 1 ELSE Len(sheet)

C5_Step ==
    /\ ui'.op = "page_recs" /\ ui'.computed /\ ui'.fail = "none" /\ Len(recs') > 0 =>
          /\ Len(sheet') = RowsWithHeader + 1
          /\ \A i \in 2..Len(sheet) : sheet'[i] = sheet[i]
          /\ LET row == sheet'[Len(sheet')]
             IN  /\ Len(row) = 8
                 /\ Len(row[1]) = 19
                 /\ row[2] = username
                 /\ row[3] = req'.meal
                 /\ row[4] = StatedDigits(req'.calories_max)
                 /\ row[5] = StatedDigits(req'.protein_min)
                 /\ row[6] = StatedDigits(req'.sodium_max)
                 /\ row[7] = StatedDigits(req'.top_n)
                 /\ row[8] = StatedTitles(recs')
    /\ ui'.op = "page_recs" /\ ui'.computed /\ Len(recs') = 0 =>
          /\ Len(sheet') = RowsWithHeader
          /\ \A i \in 2..Len(sheet) : sheet'[i] = sheet[i]
    /\ ui'.op \in {"do_login", "go_login"} => sheet' = sheet

\* C5: every step appends one audit row per non-empty result, holding the
\* username, the request and the joined titles, and no row otherwise
C5_OneRowPerResult == [][C5_Step]_vars

\* user Mo is shown C then A, and the row with "C | A" is the last of the sheet
C5_Witness ==
    /\ ui.op = "page_recs"
    /\ ui.notices = <<"success">>
    /\ username = <<"M","o">>
    /\ Len(recs) = 2
    /\ Len(sheet) = 2
    /\ sheet[2][8] = <<"C"," ","|"," ","A">>

(***************************************************************************)
(* C8 as stated: when a remote-store call fails in a "show                 *)
(* recommendations" interaction, the result is still computed and          *)
(* displayed, exactly one generic error notice is shown and no success     *)
(* notice, and neither ensure_sheet_header nor log_request is called more  *)
(* than once.                                                              *)
(***************************************************************************)
C8_DisplayedDespiteFailure ==
    ui.op = "page_recs" /\ ui.fail \in {"header", "append"} =>
        /\ ui.computed /\ ui.shown
        /\ ui.notices = <<"error">>
        /\ ui.calls.ensure <= 1 /\ ui.calls.log <= 1

(***************************************************************************)
(* C8 as amended: when log_request fails, the result has been computed and *)
(* displayed; when ensure_sheet_header fails, the result is neither        *)
(* computed nor displayed; in both cases exactly one generic error notice  *)
(* is shown and no success notice, and in every interaction each of        *)
(* ensure_sheet_header and log_request is called at most once.             *)
(***************************************************************************)
C8_DisplayedUnlessHeaderFails ==
    ui.op = "page_recs" =>
        /\ ui.fail = "append" =>
              /\ ui.computed /\ ui.shown
              /\ Len(recs) > 0
              /\ Len(ui.view) = Len(recs)
              /\ \A i \in 1..Len(recs) : ui.view[i].title = recs[i].title
              /\ ui.notices = <<"error">>
        /\ ui.fail = "header" =>
              /\ ~ui.computed /\ ~ui.shown /\ ui.view = <<>>
              /\ ui.notices = <<"error">>
        /\ ui.calls.ensure <= 1 /\ ui.calls.log <= 1

\* log_request fails after two rows were displayed
C8_Witness ==
    /\ ui.op = "page_recs"
    /\ ui.fail = "append"
    /\ ui.shown
    /\ Len(ui.view) = 2

(***************************************************************************)
(* C4: no row that append_row has written (by log_request or by            *)
(* gsheets_test.py) is later overwritten, changed or deleted.              *)
(***************************************************************************)
C4_AppendOnly ==
    \A a \in appended : a.at <= Len(sheet) /\ sheet[a.at] = a.row

(***************************************************************************)
(* C6: after a successful ensure_sheet_header the first row, trimmed and   *)
(* lowercased, is the eight-column header, and a further call writes       *)
(* nothing.                                                                *)
(***************************************************************************)
C6_HeaderRepairedOnce ==
    /\ ensured >= 1 => normalized(row_values(sheet, 1)) = LOG_COLUMNS
    /\ ensured >= 2 => ~wrote

====
